---- MODULE Spec2Model ----
(***************************************************************************)
(* Model of package knownerror (src/proxy.go): the Proxy error type, its   *)
(* constructors New / Newf / Wrap, the copy-on-write transformations       *)
(* WithCause / Extends, and the hooks Error / Unwrap / Cause / Is / As /   *)
(* Format, together with the parts of the Go standard library they         *)
(* delegate to (errors.New, fmt.Errorf, errors.Is, errors.As, append).     *)
(*                                                                         *)
(* Error values are pointers.  A pointer is an index into `heap`; Nil is   *)
(* the nil error.  A slice is a header (arr, len, cap) over a backing      *)
(* array held in `arrays`, so that sharing of a backing array between two  *)
(* instances is expressible.  An error value in this model is either Nil   *)
(* or the address of a live instance: a nil *Proxy converted to a non-nil  *)
(* error interface is not part of the value domain.                        *)
(***************************************************************************)
EXTENDS Integers, Sequences, FiniteSets, TLC

VARIABLES heap, arrays, last

vars == <<heap, arrays, last>>

\* ------------------------------------------------------------------ bounds
MaxHeap == 4
MaxArgs == 2

\* --------------------------------------------------------------- constants
Nil == 0

Texts == {"m", "c"}
Prefixes == {"e: "}
Verbs == {"v", "s", "q", "d"}
TargetTypes == {"customError", "Proxy", "error"}

NilSlice == [arr |-> 0, len |-> 0, cap |-> 0]

\* type Proxy struct { base error; cause error; extends []error }
Proxy(base, cause, extends) ==
    [kind |-> "Proxy", msg |-> "", base |-> base, cause |-> cause, extends |-> extends]

\* errors.New: *errorString{s: text}
errorString(text) ==
    [kind |-> "errorString", msg |-> text, base |-> Nil, cause |-> Nil, extends |-> NilSlice]

\* fmt.Errorf with %w: *wrapError{msg, err}
wrapError(msg, err) ==
    [kind |-> "wrapError", msg |-> msg, base |-> err, cause |-> Nil, extends |-> NilSlice]

\* proxy_test.go: type customError struct{ code int }
customError ==
    [kind |-> "customError", msg |-> "custom error", base |-> Nil, cause |-> Nil, extends |-> NilSlice]

Addrs == 1..Len(heap)
Errors == Addrs \cup {Nil}
Proxies == {a \in Addrs : heap[a].kind = "Proxy"}

\* ------------------------------------------------------------------ slices
\* make([]error, 0, n)
MakeSlice(arrs, n) ==
    [arrays |-> Append(arrs, [i \in 1..n |-> Nil]),
     slice  |-> [arr |-> Len(arrs) + 1, len |-> 0, cap |-> n]]

\* the elements s[0:len] of a slice, read through its backing array
Elems(arrs, s) == [i \in 1..s.len |-> arrs[s.arr][i]]

\* runtime.growslice for a small slice: double, or the needed length if larger
GrowCap(oldCap, newLen) == IF newLen > 2 * oldCap THEN newLen ELSE 2 * oldCap

\* append(s, elems...): in place while the capacity suffices, else a new array
AppendSlice(arrs, s, elems) ==
    LET k == Len(elems)
        n == s.len + k
    IN  IF k = 0 THEN [arrays |-> arrs, slice |-> s]
        ELSE IF n <= s.cap
        THEN [arrays |-> [arrs EXCEPT ![s.arr] =
                            [i \in 1..s.cap |->
                                IF i > s.len /\ i <= n THEN elems[i - s.len] ELSE @[i]]],
              slice  |-> [s EXCEPT !.len = n]]
        ELSE LET c   == GrowCap(s.cap, n)
                 old == Elems(arrs, s)
             IN  [arrays |-> Append(arrs,
                                [i \in 1..c |->
                                    IF i <= s.len THEN old[i]
                                    ELSE IF i <= n THEN elems[i - s.len] ELSE Nil]),
                  slice  |-> [arr |-> Len(arrs) + 1, len |-> n, cap |-> c]]

\* e.extends as the sequence a `range` over it visits
Extended(e) == Elems(arrays, heap[e].extends)

\* -------------------------------------------------------------------- hooks
RECURSIVE Error(_), ErrorString(_), ErrorsIs(_, _), is(_, _), IsLoop(_, _, _),
          ErrorsAs(_, _, _), as(_, _, _), AsLoop(_, _, _, _), Format(_, _, _)

\* func (e *Proxy) Error() string
Error(e) ==
    IF heap[e].base # Nil THEN ErrorString(heap[e].base) ELSE ""

\* err.Error() on an error value: the method of its dynamic type
ErrorString(err) ==
    IF heap[err].kind = "Proxy" THEN Error(err) ELSE heap[err].msg

\* func (e *Proxy) Unwrap() error
Unwrap(e) == heap[e].base

\* func (e *Proxy) Cause() error
Cause(e) == heap[e].cause

\* the Unwrap() error method of an error value, Nil when its type has none
UnwrapOf(err) ==
    CASE heap[err].kind = "Proxy"     -> Unwrap(err)
      [] heap[err].kind = "wrapError" -> heap[err].base
      [] OTHER                        -> Nil

\* the for-range loop of Proxy.Is, from index i on
IsLoop(exts, i, target) ==
    IF i > Len(exts) THEN FALSE
    ELSE IF ErrorsIs(exts[i], target) THEN TRUE
    ELSE IsLoop(exts, i + 1, target)

\* Is, had it also consulted the base
IsAlsoBase(e, target) ==
    IF target = Nil THEN FALSE
    ELSE ErrorsIs(heap[e].base, target) \/ IsLoop(Extended(e), 1, target)

\* func (e *Proxy) Is(target error) bool
Is(e, target) ==
    IF target = Nil THEN FALSE ELSE IsLoop(Extended(e), 1, target)

\* errors.is: the chain walk (every error type here is a comparable pointer)
is(err, target) ==
    IF err = target THEN TRUE
    ELSE IF heap[err].kind = "Proxy" /\ Is(err, target) THEN TRUE
    ELSE LET u == UnwrapOf(err)
         IN  IF u = Nil THEN FALSE ELSE is(u, target)

\* errors.Is(err, target)
ErrorsIs(err, target) ==
    IF err = Nil \/ target = Nil THEN err = target ELSE is(err, target)

\* reflect: a value of err's dynamic type is assignable to the holder's type
Assignable(err, typ) ==
    CASE typ = "error" -> TRUE
      [] OTHER         -> heap[err].kind = typ

\* the for-range loop of Proxy.As, from index i on; holder is the value the
\* target holds so far
AsLoop(exts, i, typ, holder) ==
    IF i > Len(exts) THEN [ok |-> FALSE, holder |-> holder]
    ELSE LET r == ErrorsAs(exts[i], typ, holder)
         IN  IF r.ok THEN r ELSE AsLoop(exts, i + 1, typ, r.holder)

\* As, had its loop skipped the first extended error
AsFromSecond(e, typ, holder) == AsLoop(Extended(e), 2, typ, holder)

\* func (e *Proxy) As(target any) bool
As(e, typ, holder) == AsLoop(Extended(e), 1, typ, holder)

\* errors.as: the chain walk
as(err, typ, holder) ==
    IF Assignable(err, typ) THEN [ok |-> TRUE, holder |-> err]
    ELSE LET r == IF heap[err].kind = "Proxy" THEN As(err, typ, holder)
                  ELSE [ok |-> FALSE, holder |-> holder]
             u == UnwrapOf(err)
         IN  IF r.ok THEN r
             ELSE IF u = Nil THEN [ok |-> FALSE, holder |-> r.holder]
             ELSE as(u, typ, r.holder)

\* errors.As(err, target), target a non-nil pointer to a variable of type typ
ErrorsAs(err, typ, holder) ==
    IF err = Nil THEN [ok |-> FALSE, holder |-> holder] ELSE as(err, typ, holder)

\* strconv.Quote of a string without characters that need escaping
Quote(s) == "\"" \o s \o "\""

\* the cause rendered with %+v instead of %s
SprintPlusV(err) ==
    IF heap[err].kind = "Proxy" THEN Format(err, "v", TRUE) ELSE ErrorString(err)

\* fmt's rendering of an error operand under the verb %s: a fmt.Formatter is
\* asked to format itself, any other error contributes Error()
SprintS(err) ==
    IF heap[err].kind = "Proxy" THEN Format(err, "s", FALSE) ELSE ErrorString(err)

\* func (e *Proxy) Format(s fmt.State, verb rune): what is written to s
Format(e, verb, plus) ==
    CASE verb = "v" ->
            IF plus /\ heap[e].cause # Nil
            THEN Error(e) \o " (cause: " \o SprintS(heap[e].cause) \o ")"
            ELSE Error(e)
      [] verb = "s" -> Error(e)
      [] verb = "q" -> Quote(Error(e))
      [] OTHER      -> ""

\* fmt.Errorf(prefix + "%s", text) and fmt.Errorf(prefix + "%w", err)
Errorf(prefix, verb, arg) ==
    IF verb = "w" THEN wrapError(prefix \o ErrorString(arg), arg)
    ELSE errorString(prefix \o arg)

\* --------------------------------------------------------- the call record
\* What the caller holds after a call: the operation, its receiver and
\* arguments, and what it returned (ret: a pointer, ok: a bool, out: a string,
\* holder: the target of As).  chain: the non-nil errors passed to the
\* consecutive Extends calls of the expression x.Extends(..).Extends(..)
\* whose value is ret.
Call(op, recv, args, ret) ==
    [op |-> op, recv |-> recv, args |-> args, ret |-> ret, ok |-> FALSE,
     out |-> "", typ |-> "", plus |-> FALSE, holder |-> Nil, chain |-> {}]

Init ==
    /\ heap = <<>>
    /\ arrays = <<>>
    /\ last = Call("init", Nil, <<>>, Nil)

\* ------------------------------------------------------------ constructors
\* errors.New(text), as the callers of the package use it
ErrorsNew(text) ==
    /\ Len(heap) < MaxHeap
    /\ heap' = Append(heap, errorString(text))
    /\ last' = Call("errors.New", Nil, <<>>, Len(heap) + 1)
    /\ UNCHANGED arrays

\* &customError{code: ...}
NewCustom ==
    /\ Len(heap) < MaxHeap
    /\ heap' = Append(heap, customError)
    /\ last' = Call("customError", Nil, <<>>, Len(heap) + 1)
    /\ UNCHANGED arrays

\* &Proxy{}: the zero value
ZeroValue ==
    /\ Len(heap) < MaxHeap
    /\ heap' = Append(heap, Proxy(Nil, Nil, NilSlice))
    /\ last' = Call("zero", Nil, <<>>, Len(heap) + 1)
    /\ UNCHANGED arrays

New(text) ==
    /\ Len(heap) + 2 <= MaxHeap
    /\ heap' = heap \o <<errorString(text), Proxy(Len(heap) + 1, Nil, NilSlice)>>
    /\ last' = Call("New", Nil, <<>>, Len(heap) + 2)
    /\ UNCHANGED arrays

Newf(prefix, verb, arg) ==
    /\ Len(heap) + 2 <= MaxHeap
    /\ heap' = heap \o <<Errorf(prefix, verb, arg), Proxy(Len(heap) + 1, Nil, NilSlice)>>
    /\ last' = Call("Newf", Nil, <<>>, Len(heap) + 2)
    /\ UNCHANGED arrays

\* Wrap without its nil check
WrapNoNilCheck(err) ==
    /\ Len(heap) < MaxHeap
    /\ heap' = Append(heap, Proxy(err, Nil, NilSlice))
    /\ last' = Call("Wrap", Nil, <<err>>, Len(heap) + 1)
    /\ UNCHANGED arrays

Wrap(err) ==
    IF err = Nil
    THEN /\ last' = Call("Wrap", Nil, <<err>>, Nil)
         /\ UNCHANGED <<heap, arrays>>
    ELSE /\ Len(heap) < MaxHeap
         /\ heap' = Append(heap, Proxy(err, Nil, NilSlice))
         /\ last' = Call("Wrap", Nil, <<err>>, Len(heap) + 1)
         /\ UNCHANGED arrays

\* ---------------------------------------------------------- transformations
\* WithCause without the receiver in the new extends list
WithCauseNoSelf(e, cause) ==
    IF cause = Nil
    THEN /\ last' = Call("WithCause", e, <<cause>>, e)
         /\ UNCHANGED <<heap, arrays>>
    ELSE /\ Len(heap) < MaxHeap
         /\ LET m0  == MakeSlice(arrays, heap[e].extends.len + 1)
                m2  == AppendSlice(m0.arrays, m0.slice, Elems(m0.arrays, heap[e].extends))
                cpy == [heap[e] EXCEPT !.cause = cause, !.extends = m2.slice]
            IN  /\ heap' = Append(heap, cpy)
                /\ arrays' = m2.arrays
                /\ last' = Call("WithCause", e, <<cause>>, Len(heap) + 1)

\* WithCause with the receiver appended after the prior extends list
WithCauseSelfLast(e, cause) ==
    IF cause = Nil
    THEN /\ last' = Call("WithCause", e, <<cause>>, e)
         /\ UNCHANGED <<heap, arrays>>
    ELSE /\ Len(heap) < MaxHeap
         /\ LET m0  == MakeSlice(arrays, heap[e].extends.len + 1)
                m1  == AppendSlice(m0.arrays, m0.slice, Elems(m0.arrays, heap[e].extends))
                m2  == AppendSlice(m1.arrays, m1.slice, <<e>>)
                cpy == [heap[e] EXCEPT !.cause = cause, !.extends = m2.slice]
            IN  /\ heap' = Append(heap, cpy)
                /\ arrays' = m2.arrays
                /\ last' = Call("WithCause", e, <<cause>>, Len(heap) + 1)

\* WithCause without its nil check: a copy is made for a nil cause too
WithCauseAlwaysCopies(e, cause) ==
    /\ Len(heap) < MaxHeap
    /\ LET m0  == MakeSlice(arrays, heap[e].extends.len + 1)
           m1  == AppendSlice(m0.arrays, m0.slice, <<e>>)
           m2  == AppendSlice(m1.arrays, m1.slice, Elems(m1.arrays, heap[e].extends))
           cpy == [heap[e] EXCEPT !.cause = cause, !.extends = m2.slice]
       IN  /\ heap' = Append(heap, cpy)
           /\ arrays' = m2.arrays
           /\ last' = Call("WithCause", e, <<cause>>, Len(heap) + 1)

\* WithCause setting the cause and the extends list on the receiver itself
WithCauseInPlace(e, cause) ==
    IF cause = Nil
    THEN /\ last' = Call("WithCause", e, <<cause>>, e)
         /\ UNCHANGED <<heap, arrays>>
    ELSE LET m0 == MakeSlice(arrays, heap[e].extends.len + 1)
             m1 == AppendSlice(m0.arrays, m0.slice, <<e>>)
             m2 == AppendSlice(m1.arrays, m1.slice, Elems(m1.arrays, heap[e].extends))
         IN  /\ heap' = [heap EXCEPT ![e].cause = cause, ![e].extends = m2.slice]
             /\ arrays' = m2.arrays
             /\ last' = Call("WithCause", e, <<cause>>, e)

WithCause(e, cause) ==
    IF cause = Nil
    THEN /\ last' = Call("WithCause", e, <<cause>>, e)
         /\ UNCHANGED <<heap, arrays>>
    ELSE /\ Len(heap) < MaxHeap
         /\ LET m0  == MakeSlice(arrays, heap[e].extends.len + 1)
                m1  == AppendSlice(m0.arrays, m0.slice, <<e>>)
                m2  == AppendSlice(m1.arrays, m1.slice, Elems(m1.arrays, heap[e].extends))
                cpy == [heap[e] EXCEPT !.cause = cause, !.extends = m2.slice]
            IN  /\ heap' = Append(heap, cpy)
                /\ arrays' = m2.arrays
                /\ last' = Call("WithCause", e, <<cause>>, Len(heap) + 1)

NonNil(errs) == SelectSeq(errs, LAMBDA err : err # Nil)

ChainOf(e) == IF last.op = "Extends" /\ last.ret = e THEN last.chain ELSE {}

\* Extends without the copy of the receiver's extends list
ExtendsNoCopy(e, errs) ==
    LET nonNilErrs == NonNil(errs)
        chain == ChainOf(e) \cup {nonNilErrs[i] : i \in 1..Len(nonNilErrs)}
    IN  IF Len(nonNilErrs) = 0
        THEN /\ last' = [Call("Extends", e, errs, e) EXCEPT !.chain = chain]
             /\ UNCHANGED <<heap, arrays>>
        ELSE /\ Len(heap) < MaxHeap
             /\ LET m0  == MakeSlice(arrays, heap[e].extends.len + Len(nonNilErrs))
                    m2  == AppendSlice(m0.arrays, m0.slice, nonNilErrs)
                    cpy == [heap[e] EXCEPT !.extends = m2.slice]
                IN  /\ heap' = Append(heap, cpy)
                    /\ arrays' = m2.arrays
                    /\ last' = [Call("Extends", e, errs, Len(heap) + 1) EXCEPT !.chain = chain]

\* Extends appending to the receiver's own slice: append(e.extends, nonNilErrs...)
ExtendsAlias(e, errs) ==
    LET nonNilErrs == NonNil(errs)
        chain == ChainOf(e) \cup {nonNilErrs[i] : i \in 1..Len(nonNilErrs)}
    IN  IF Len(nonNilErrs) = 0
        THEN /\ last' = [Call("Extends", e, errs, e) EXCEPT !.chain = chain]
             /\ UNCHANGED <<heap, arrays>>
        ELSE /\ Len(heap) < MaxHeap
             /\ LET m2  == AppendSlice(arrays, heap[e].extends, nonNilErrs)
                    cpy == [heap[e] EXCEPT !.extends = m2.slice]
                IN  /\ heap' = Append(heap, cpy)
                    /\ arrays' = m2.arrays
                    /\ last' = [Call("Extends", e, errs, Len(heap) + 1) EXCEPT !.chain = chain]

Extends(e, errs) ==
    LET nonNilErrs == NonNil(errs)
        chain == ChainOf(e) \cup {nonNilErrs[i] : i \in 1..Len(nonNilErrs)}
    IN  IF Len(nonNilErrs) = 0
        THEN /\ last' = [Call("Extends", e, errs, e) EXCEPT !.chain = chain]
             /\ UNCHANGED <<heap, arrays>>
        ELSE /\ Len(heap) < MaxHeap
             /\ LET m0  == MakeSlice(arrays, heap[e].extends.len + Len(nonNilErrs))
                    m1  == AppendSlice(m0.arrays, m0.slice, Elems(m0.arrays, heap[e].extends))
                    m2  == AppendSlice(m1.arrays, m1.slice, nonNilErrs)
                    cpy == [heap[e] EXCEPT !.extends = m2.slice]
                IN  /\ heap' = Append(heap, cpy)
                    /\ arrays' = m2.arrays
                    /\ last' = [Call("Extends", e, errs, Len(heap) + 1) EXCEPT !.chain = chain]

\* ----------------------------------------------------------------- queries
CallError(e) ==
    /\ last' = [Call("Error", e, <<>>, Nil) EXCEPT !.out = Error(e)]
    /\ UNCHANGED <<heap, arrays>>

CallUnwrap(e) ==
    /\ last' = Call("Unwrap", e, <<>>, Unwrap(e))
    /\ UNCHANGED <<heap, arrays>>

CallCause(e) ==
    /\ last' = Call("Cause", e, <<>>, Cause(e))
    /\ UNCHANGED <<heap, arrays>>

CallIs(e, target) ==
    /\ last' = [Call("Is", e, <<target>>, Nil) EXCEPT !.ok = Is(e, target)]
    /\ UNCHANGED <<heap, arrays>>

\* e.As(&holder), the holder a variable of type typ holding h0 before the call
CallAs(e, typ, h0) ==
    /\ LET r == As(e, typ, h0)
       IN  last' = [Call("As", e, <<h0>>, Nil) EXCEPT
                        !.typ = typ, !.ok = r.ok, !.holder = r.holder]
    /\ UNCHANGED <<heap, arrays>>

\* fmt.Sprintf("%" + flag + verb, e)
CallFormat(e, verb, plus) ==
    /\ last' = [Call("Format", e, <<>>, Nil) EXCEPT
                    !.typ = verb, !.plus = plus, !.out = Format(e, verb, plus)]
    /\ UNCHANGED <<heap, arrays>>

ArgLists == UNION {[1..n -> Errors] : n \in 0..MaxArgs}

\* the constructors, as the callers of the package reach them
Construct ==
    \/ \E text \in Texts : ErrorsNew(text)
    \/ NewCustom
    \/ ZeroValue
    \/ \E text \in Texts : New(text)
    \/ \E prefix \in Prefixes, text \in Texts : Newf(prefix, "s", text)
    \/ \E prefix \in Prefixes, err \in Addrs : Newf(prefix, "w", err)
    \/ \E err \in Errors : Wrap(err)

Transform ==
    \/ \E e \in Proxies, cause \in Errors : WithCause(e, cause)
    \/ \E e \in Proxies, errs \in ArgLists : Extends(e, errs)

\* construction, transformation and the accessors
Next ==
    \/ Construct
    \/ Transform
    \/ \E e \in Proxies : CallError(e)
    \/ \E e \in Proxies : CallUnwrap(e)
    \/ \E e \in Proxies : CallCause(e)

Spec == Init /\ [][Next]_vars

\* construction, transformation and the identity hook
NextIs ==
    \/ Construct
    \/ Transform
    \/ \E e \in Proxies, target \in Errors : CallIs(e, target)

SpecIs == Init /\ [][NextIs]_vars

\* construction, transformation and the extraction hook
NextAs ==
    \/ Construct
    \/ Transform
    \/ \E e \in Proxies, typ \in TargetTypes :
          \E h0 \in {Nil} \cup {a \in {e} : Assignable(a, typ)} : CallAs(e, typ, h0)

SpecAs == Init /\ [][NextAs]_vars

\* construction, transformation and the display hook
NextFormat ==
    \/ Construct
    \/ Transform
    \/ \E e \in Proxies, verb \in Verbs, plus \in BOOLEAN : CallFormat(e, verb, plus)

SpecFormat == Init /\ [][NextFormat]_vars

\* ------------------------------------------------------------------ claims
Range(f) == {f[i] : i \in DOMAIN f}

\* the errors an error value refers to for identity matching: a proxy's base
\* and extended errors, a wrapError's wrapped error
Edges(a) ==
    CASE heap[a].kind = "Proxy"     -> ({heap[a].base} \cup Range(Extended(a))) \ {Nil}
      [] heap[a].kind = "wrapError" -> {heap[a].base} \ {Nil}
      [] OTHER                      -> {}

RECURSIVE ReachFrom(_)
ReachFrom(S) ==
    LET T == S \cup UNION {Edges(a) : a \in S}
    IN  IF T = S THEN S ELSE ReachFrom(T)

\* t is a, or a's chain / extended errors reach t
Reaches(a, t) == t \in ReachFrom({a})

AttachedCause == last.op = "WithCause" /\ last.args[1] # Nil

\* C1: for every proxy x and non-nil error c, x.WithCause(c).Cause() is c and
\* errors.Is(x.WithCause(c), x) is true.
C1_CausePreservesIdentity ==
    AttachedCause =>
        /\ Cause(last.ret) = last.args[1]
        /\ ErrorsIs(last.ret, last.recv)

\* a cause was attached to a proxy that already had extended errors
C1_Witness ==
    /\ AttachedCause
    /\ last.ret # last.recv
    /\ Len(Extended(last.recv)) > 0
    /\ last.args[1] # last.recv

Matching(e, typ) ==
    {i \in 1..heap[e].extends.len : ErrorsAs(Extended(e)[i], typ, Nil).ok}

Min(S) == CHOOSE i \in S : \A j \in S : i <= j

C5_Wrap ==
    [][last'.op = "Wrap" =>
          IF last'.args[1] = Nil
          THEN last'.ret = Nil /\ heap' = heap /\ arrays' = arrays
          ELSE /\ Len(heap') = Len(heap) + 1
               /\ last'.ret = Len(heap')
               /\ heap'[last'.ret].kind = "Proxy"
               /\ Unwrap(last.ret)' = last'.args[1]]_vars

\* Wrap(nil) was called while instances exist
C5_Witness ==
    /\ last.op = "Wrap"
    /\ last.args[1] = Nil
    /\ last.ret = Nil
    /\ Proxies # {}

\* no two instances hold slices over the same backing array
NoSharedBacking ==
    \A a, b \in Addrs :
        (a # b /\ heap[a].extends.arr # 0) => heap[a].extends.arr # heap[b].extends.arr

\* C6: no step changes the base, the cause or the extended errors of an
\* instance that exists, and no two instances share a backing array.
C6_Immutable ==
    [][/\ \A a \in Addrs :
             /\ heap'[a] = heap[a]
             /\ Elems(arrays', heap'[a].extends) = Elems(arrays, heap[a].extends)
       /\ NoSharedBacking']_vars

\* a transformation produced a new instance from a receiver that has extended
\* errors of its own
C6_Witness ==
    /\ last.op \in {"WithCause", "Extends"}
    /\ last.ret # last.recv
    /\ heap[last.recv].extends.len > 0
    /\ heap[last.ret].extends.len > heap[last.recv].extends.len

\* C7: WithCause(nil), and Extends with no or only nil arguments, return the
\* receiver itself; nothing is allocated and no field changes.
C7_NoOpReturnsReceiver ==
    [][(\/ last'.op = "WithCause" /\ last'.args[1] = Nil
        \/ last'.op = "Extends" /\ Range(last'.args) \subseteq {Nil})
       => /\ last'.ret = last'.recv
          /\ heap' = heap
          /\ arrays' = arrays]_vars

\* WithCause(nil) was called on a proxy that carries a cause and extended errors
C7_Witness ==
    /\ last.op = "WithCause"
    /\ last.args[1] = Nil
    /\ last.ret = last.recv
    /\ heap[last.recv].cause # Nil

\* C8: %+v of a proxy with a cause writes "<message> (cause: <cause's
\* message>)", the cause's own cause not expanded; %+v without a cause, and
\* %v and %s, write the message.
C8_Format ==
    last.op = "Format" =>
        LET e == last.recv
        IN  /\ (last.typ = "v" /\ last.plus /\ Cause(e) # Nil) =>
                  last.out = Error(e) \o " (cause: " \o ErrorString(Cause(e)) \o ")"
            /\ (last.typ = "v" /\ last.plus /\ Cause(e) = Nil) => last.out = Error(e)
            /\ (last.typ \in {"v", "s"} /\ ~last.plus) => last.out = Error(e)

\* %+v of a proxy whose cause is a proxy with a cause of its own
C8_Witness ==
    /\ last.op = "Format"
    /\ last.typ = "v"
    /\ last.plus
    /\ Cause(last.recv) # Nil
    /\ heap[Cause(last.recv)].cause # Nil

\* C9: x.WithCause(c) for a non-nil c is a new instance with the base of x,
\* cause c and extends = [x] followed by the list of x; when x has a cause of
\* its own, Cause() of the result is c alone, and x and the instance x was
\* made from head the list in that order and both still match.
C9_WithCauseLayout ==
    AttachedCause =>
        LET x == last.recv
            r == last.ret
        IN  /\ r = Len(heap) /\ r # x
            /\ heap[r].kind = "Proxy"
            /\ heap[r].base = heap[x].base
            /\ Cause(r) = last.args[1]
            /\ Extended(r) = <<x>> \o Extended(x)
            /\ Cause(x) # Nil =>
                  /\ Extended(r)[2] = Extended(x)[1]
                  /\ heap[Extended(x)[1]].kind = "Proxy"
                  /\ heap[Extended(x)[1]].base = heap[x].base
                  /\ ErrorsIs(r, x)
                  /\ ErrorsIs(r, Extended(x)[1])

\* a second, different cause was attached to a proxy that has one
C9_Witness ==
    /\ AttachedCause
    /\ Cause(last.recv) # Nil
    /\ Cause(last.recv) # last.args[1]
    /\ Cause(last.ret) = last.args[1]

\* C10: every instance refers only to instances created before it (base,
\* cause, extended errors), so the graph is acyclic and the walks of errors.Is
\* and errors.As end.
C10_Acyclic ==
    \A a \in Addrs : \A b \in Edges(a) \cup ({heap[a].cause} \ {Nil}) : b < a

\* a proxy three references deep: an extended error that itself has an
\* extended error
C10_Witness ==
    \E a \in Proxies : \E b \in Range(Extended(a)) :
        /\ heap[b].kind = "Proxy"
        /\ \E c \in Range(Extended(b)) : heap[c].kind = "Proxy" /\ heap[c].base # Nil

====
